---- MODULE Spec2Model ----
(***************************************************************************)
(* Model of the caching core of mcp_run.Client (src/mcp_run/client.py):    *)
(* the install cache with its timed refresh (Client.installs), the plugin  *)
(* cache (Client.plugin), call dispatch (Client.call), clear_cache and     *)
(* set_profile, together with the remote registry they talk to.            *)
(*                                                                         *)
(* The model follows client.py.  client.py constructs every listed Servlet *)
(* with installed=True and reads install.installed back in plugin(); the   *)
(* model takes every listed Servlet to be constructed and installed.       *)
(* api.py reads the user of a profile that client.py passes as a str; the  *)
(* model reads the user of a str as ProfileSlug.parse does (types.py).     *)
(***************************************************************************)
EXTENDS Integers, Sequences, FiniteSets, TLC

\* ------------------------------------------------------------------ bounds
MaxTime == 2
MaxRemoteChanges == 1
MaxTimeout == 3
MaxInterval == 2
MaxLatency == 2
MaxPolls == 7

\* ------------------------------------------------- values drawn by the model
\* Profiles are the current user's own, named without a user as
\* ClientConfig.profile is; Slugs adds a public profile of another user,
\* named "user/name".
Profiles == {"default", "work"}
Slugs == Profiles \cup {"other/pub"}
Names == {"a", "b"}
Threads == {1, 2}

\* ClientConfig.tool_refresh_time, in clock ticks
RefreshTime == 2

\* An absent value (Python None) is the empty sequence, a present one a
\* one-element sequence, so the two compare without a type clash.
None == << >>
Some(x) == << x >>
IsNone(o) == o = << >>
The(o) == o[1]

\* --------------------------------------------------------------- sequences
RECURSIVE SeqToSet(_)
SeqToSet(s) == IF s = << >> THEN {} ELSE {Head(s)} \cup SeqToSet(Tail(s))

RECURSIVE SeqFilter(_, _)
SeqFilter(s, keep) ==
    IF s = << >> THEN << >>
    ELSE IF Head(s) \in keep THEN << Head(s) >> \o SeqFilter(Tail(s), keep)
    ELSE SeqFilter(Tail(s), keep)

\* ------------------------------------------------------------ tool schemas
\* A tool as the registry describes it: name and description (the input
\* schema is folded into the description).  A servlet's tools dict is a
\* sequence in insertion order.
ToolT1d1 == [name |-> "t1", description |-> "d1"]
ToolT1d2 == [name |-> "t1", description |-> "d2"]
ToolNames == {"t1"}

\* An installation as the remote listing reports it.
Listed(n, s, t) ==
    [name |-> n, slug |-> "u/s", binding_id |-> "bid", content_addr |-> "ca",
     settings |-> s, tools |-> t]

ListingNames(l) == { l[i].name : i \in 1..Len(l) }

\* What the registry may hold under each install name: a is a servlet with
\* tool t1, in two versions of the tool and with permission settings "A" or
\* "B"; b is a servlet with no tool, or with a tool t1 of its own.
Variants(n) ==
    IF n = "a"
    THEN { Listed("a", "A", << ToolT1d1 >>), Listed("a", "B", << ToolT1d1 >>),
           Listed("a", "A", << ToolT1d2 >>) }
    ELSE { Listed("b", "A", << >>), Listed("b", "A", << ToolT1d1 >>) }

\* Every listing the registry can report for a profile: any of the names,
\* each at most once, in any order.
Listings ==
    { << >> }
    \cup { << v >> : v \in Variants("a") \cup Variants("b") }
    \cup { << v, w >> : v \in Variants("a"), w \in Variants("b") }
    \cup { << w, v >> : v \in Variants("a"), w \in Variants("b") }

\* The registry's listings when the client is constructed.
InitListings ==
    { << Listed("a", "A", << ToolT1d1 >>) >>,
      << Listed("a", "A", << ToolT1d1 >>), Listed("b", "A", << >>) >> }

\* Profile work keeps one listing; the registry changes profile default.
WorkListing == << Listed("b", "B", << ToolT1d2 >>) >>

\* The other user's public profile keeps one listing too.
PubListing == << Listed("a", "B", << ToolT1d2 >>) >>

\* the registry with l as the listing of profile default
Registry(l) ==
    [p \in Slugs |-> IF p = "default" THEN l
                     ELSE IF p = "work" THEN WorkListing ELSE PubListing]

\* ------------------------------------------------------------ call options
\* wasi, functions (None or a list of host functions, each known by its
\* pointer) and wasm (None or a list of extra modules).
Opt(w, f, m) == [wasi |-> w, functions |-> f, wasm |-> m]
DefaultOpts == Opt(TRUE, None, None)
OptionSets ==
    { DefaultOpts, Opt(FALSE, None, None), Opt(TRUE, Some(<< "p1" >>), None),
      Opt(TRUE, None, Some(<< "w1" >>)) }
BasicOptions == { DefaultOpts, Opt(FALSE, None, None) }

\* ---------------------------------------------------------------- VARIABLES
VARIABLES
    remote,                     \* registry: profile -> listing (installs in order)
    remoteChanges,              \* registry: number of changes made so far
    unmodified,                 \* registry: profiles not modified since the Date
                                \* of the last full answer
    now,                        \* datetime.now()
    profile,                    \* Client.config.profile
    install_cache,              \* Client.install_cache
    plugin_cache,               \* Client.plugin_cache
    last_installations_request, \* Client.last_installations_request
    held,                       \* a Tool object the application keeps
    lastRefresh,                \* when Client.installs last completed a refresh
    calls,                      \* the Client.call each thread is in
    obs,                        \* what the last client operation did
    task_run,                   \* a TaskRun object: status, results_list, url
    remote_run,                 \* registry: status and results of that task run
    wait                        \* the TaskRun.wait in progress, and how it ended

taskVars == << task_run, remote_run, wait >>

vars == << remote, remoteChanges, unmodified, now, profile, install_cache, plugin_cache,
           last_installations_request, held, lastRefresh, calls, obs, taskVars >>

\* -------------------------------------------------------------------- Cache
\* Cache.items is a Python dict: a sequence of [key, value] in insertion
\* order, each key at most once.
NewCache(t) == [items |-> << >>, last_update |-> None, duration |-> t]

CacheKeys(c) == { c.items[i].key : i \in 1..Len(c.items) }

CacheKeyIndex(c, k) == CHOOSE i \in 1..Len(c.items) : c.items[i].key = k

CacheContains(c, k) == k \in CacheKeys(c)

CacheGet(c, k) ==
    IF CacheContains(c, k) THEN Some(c.items[CacheKeyIndex(c, k)].value) ELSE None

CacheAdd(c, k, v) ==
    IF CacheContains(c, k)
    THEN [c EXCEPT !.items[CacheKeyIndex(c, k)] = [key |-> k, value |-> v]]
    ELSE [c EXCEPT !.items = Append(c.items, [key |-> k, value |-> v])]

CacheRemove(c, k) ==
    [c EXCEPT !.items = SeqFilter(c.items, { e \in SeqToSet(c.items) : e.key # k })]

\* The values the Cache unloads on the way from c to c2.  add overwrites by
\* items[key] = item, remove drops by items.pop(key, None), clear by
\* items = {}: none of them calls anything on the value it drops, and
\* nothing else in the client does; the handle is left to the interpreter.
CacheReleased(c, c2) == << >>

\* the values c holds that c2 no longer holds
CacheDropped(c, c2) ==
    { c.items[i].value : i \in 1..Len(c.items) }
    \ { c2.items[i].value : i \in 1..Len(c2.items) }

\* a clear that drops the entries and keeps last_update
CacheClearItemsOnly(c) == [c EXCEPT !.items = << >>]

CacheClear(c) == [c EXCEPT !.items = << >>, !.last_update = None]

\* a set_last_update that records nothing
CacheSetLastUpdateForgotten(c, t) == c

CacheSetLastUpdate(c, t) == [c EXCEPT !.last_update = Some(t)]

\* a needs_refresh that is true only after the interval has passed
CacheNeedsRefreshStrict(c, t) ==
    IF IsNone(c.duration) THEN FALSE
    ELSE IF IsNone(c.last_update) THEN TRUE
    ELSE t - The(c.last_update) > The(c.duration)

\* a needs_refresh that does not look at the interval first
CacheNeedsRefreshUnguarded(c, t) ==
    IF IsNone(c.last_update) THEN TRUE
    ELSE IF IsNone(c.duration) THEN FALSE
    ELSE t - The(c.last_update) >= The(c.duration)

CacheNeedsRefresh(c, t) ==
    IF IsNone(c.duration) THEN FALSE
    ELSE IF IsNone(c.last_update) THEN TRUE
    ELSE t - The(c.last_update) >= The(c.duration)

\* -------------------------------------------------------- object identity
\* Objects are told apart by an identity, as Python's id() does: a new
\* object takes the least identity no live reference holds.
FreshId(used) == CHOOSE i \in 1..(Cardinality(used) + 1) :
                    /\ i \notin used
                    /\ \A j \in 1..(i - 1) : j \in used

\* ------------------------------------------------------------ Servlet, Tool
\* A Servlet object: the listed fields, its identity (oid) and the module
\* bytes attached to it ("none" while content is None).  Every Tool in
\* tools refers back to this object.
NewServlet(l, id) ==
    [oid |-> id, name |-> l.name, slug |-> l.slug, binding_id |-> l.binding_id,
     content_addr |-> l.content_addr, settings |-> l.settings, tools |-> l.tools,
     content |-> "none"]

HasTool(ts, n) == \E i \in 1..Len(ts) : ts[i].name = n
ToolNamed(ts, n) == ts[CHOOSE i \in 1..Len(ts) : ts[i].name = n]

\* self.tools == other.tools for the tools of two Servlet objects: dict
\* equality walks self's entries in order and compares Tool with Tool field
\* by field (name, description, input_schema, servlet); the servlet field
\* of two Tools of different objects is compared with Servlet.__eq__ again.
RECURSIVE ToolsCmp(_, _, _)
ToolsCmp(ta, tb, sameObject) ==
    IF Len(ta) # Len(tb) THEN "ne"
    ELSE IF ta = << >> THEN "eq"
    ELSE IF ~HasTool(tb, Head(ta).name) THEN "ne"
    ELSE IF sameObject
    THEN ToolsCmp(Tail(ta),
                  SeqFilter(tb, { t \in SeqToSet(tb) : t.name # Head(ta).name }),
                  sameObject)
    ELSE IF Head(ta).description # ToolNamed(tb, Head(ta).name).description THEN "ne"
    ELSE "recursion"

\* Servlet.__eq__(a, b) for b not None: "eq", "ne", or "recursion" when the
\* comparison never returns (RecursionError).
ServletCmp(a, b) ==
    LET t == ToolsCmp(a.tools, b.tools, a.oid = b.oid) IN
    IF t # "eq" THEN t
    ELSE IF a.settings = b.settings /\ a.content_addr = b.content_addr
            /\ a.binding_id = b.binding_id /\ a.slug = b.slug /\ a.name = b.name
    THEN "eq" ELSE "ne"

\* a comparison of the fetched object with the cached one by identity
ServletNeCachedByIdentity(a, cached) ==
    IF IsNone(cached) THEN "ne"
    ELSE IF a.oid = The(cached).oid THEN "eq" ELSE "ne"

\* install != self.install_cache.get(install.name)
ServletNeCached(a, cached) ==
    IF IsNone(cached) THEN "ne" ELSE ServletCmp(a, The(cached))

\* -------------------------------------------------------- cache keys (str)
\* A Python string used as a cache key is a sequence of its parts.  An
\* install name n is the one-part string << n >>.
NameKey(n) == << n >>

RECURSIVE FuncParts(_)
FuncParts(fs) ==
    IF fs = << >> THEN << >>
    ELSE << "-", "hash", Head(fs) >> \o FuncParts(Tail(fs))

\* f"{install.name}-{wasi}" followed by "-" + str(hash(func.pointer)) for
\* every function of the list (lines 635-639); wasm takes no part.
FormatCacheName(name, opts) ==
    << name, "-", IF opts.wasi THEN "True" ELSE "False" >>
    \o (IF IsNone(opts.functions) THEN << >> ELSE FuncParts(The(opts.functions)))

\* str(hash(s)): the decimal text of the digest of s.  Different strings
\* have different digests, and no digest text is an install name.
HashStr(s) == << "hash" >> \o s

\* cache_name as plugin() looks it up (line 640)
\* a lookup under the key the plugin is stored under
PluginLookupKeyByName(install, opts) == << install.name >>

PluginLookupKey(install, opts) == HashStr(FormatCacheName(install.name, opts))

\* the key plugin() stores the new plugin under (line 670)
PluginStoreKey(install) == NameKey(install.name)

\* the key installs evicts on a changed or removed installation (499, 504)
\* an eviction under the key format of the lookup
PluginEvictKeyHashed(name) == << "hash", name >>

PluginEvictKey(name) == NameKey(name)

\* ----------------------------------------------------------------- remote
\* What requests.get on the installations endpoint can give: the full
\* listing, the not-modified answer (only to a conditional request, and only
\* while the listing is unmodified since the recorded Date), or an error.
FetchModes == {"full", "notmod", "error"}

\* the request carries if-modified-since (lines 444-445)
Conditional(lir, p) == ~IsNone(lir[p])

FetchPossible(mode, lir, p, unmod) ==
    \/ mode \in {"full", "error"}
    \/ mode = "notmod" /\ Conditional(lir, p) /\ p \in unmod

\* ------------------------------------------------------- Client.installs
\* The loop of lines 496-500 over the Servlets list_installs yields.  st
\* carries both caches, the visited set, the identities of the Servlet
\* objects referred to from outside the install cache, what was inserted and
\* replaced, and the error that ended the loop ("" for none).
\* fresh: the yielded objects are newly constructed (full listing); else
\* they are the cached objects themselves (not-modified answer).
ServletIds(ic) == { ic.items[i].value.oid : i \in 1..Len(ic.items) }

RECURSIVE ApplyYielded(_, _, _)
ApplyYielded(ys, fresh, st) ==
    IF ys = << >> THEN st
    ELSE
      LET y == Head(ys)
          install == IF fresh
                     THEN NewServlet(y, FreshId(ServletIds(st.ic) \cup st.live))
                     ELSE y
          cmp == ServletNeCached(install, CacheGet(st.ic, NameKey(install.name)))
      IN
      IF cmp = "recursion" THEN [st EXCEPT !.err = "RecursionError"]
      ELSE IF cmp = "ne"
      THEN ApplyYielded(Tail(ys), fresh,
             [st EXCEPT
                !.ic = CacheAdd(st.ic, NameKey(install.name), install),
                !.pc = CacheRemove(st.pc, PluginEvictKey(install.name)),
                !.added = IF CacheContains(st.ic, NameKey(install.name))
                          THEN st.added ELSE st.added \cup {install.name},
                !.changed = IF CacheContains(st.ic, NameKey(install.name))
                            THEN st.changed \cup {install.name} ELSE st.changed,
                !.visited = st.visited \cup {install.name}])
      ELSE ApplyYielded(Tail(ys), fresh,
             [st EXCEPT !.visited = st.visited \cup {install.name}])

\* The loop of lines 501-504: it walks install_cache.items and removes from
\* it; the dict iterator raises RuntimeError (dictionary changed size during
\* iteration) at the step after the first removal.
RemoveUnvisited(st) ==
    LET stale == { i \in 1..Len(st.ic.items) : st.ic.items[i].value.name \notin st.visited }
    IN
    IF stale = {} THEN st
    ELSE
      LET first == CHOOSE i \in stale : \A j \in stale : i <= j
          name == st.ic.items[first].value.name
      IN [st EXCEPT !.ic = CacheRemove(st.ic, NameKey(name)),
                    !.pc = CacheRemove(st.pc, PluginEvictKey(name)),
                    !.removed = st.removed \cup {name},
                    !.err = "RuntimeError"]

CacheValues(c) == [i \in 1..Len(c.items) |-> c.items[i].value]

\* an installs that records a refresh although the request failed
InstallsMarksFailed(ic, pc, lir, prof, listing, t, live, mode) ==
    LET st0 == [ic |-> ic, pc |-> pc, visited |-> {}, live |-> live,
                added |-> {}, changed |-> {}, removed |-> {}, err |-> ""]
        base == [ic |-> ic, pc |-> pc, lir |-> lir,
                 refresh |-> "none", fetch |-> "none", conditional |-> FALSE,
                 requests |-> 0,
                 listing |-> None, added |-> {}, changed |-> {}, removed |-> {}]
    IN
    IF ~CacheNeedsRefresh(ic, t) THEN base
    ELSE IF mode = "error"
    THEN [base EXCEPT !.ic = CacheSetLastUpdate(ic, t),
                      !.refresh = "FetchError", !.fetch = "error",
                      !.conditional = Conditional(lir, prof), !.requests = 1]
    ELSE
      LET fresh == mode = "full"
          st1 == ApplyYielded(IF fresh THEN listing ELSE CacheValues(ic), fresh, st0)
          st2 == IF st1.err = "" THEN RemoveUnvisited(st1) ELSE st1
      IN [ic |-> IF st2.err = "" THEN CacheSetLastUpdate(st2.ic, t) ELSE st2.ic,
          pc |-> st2.pc,
          lir |-> IF fresh THEN [lir EXCEPT ![prof] = Some("Date")] ELSE lir,
          refresh |-> IF st2.err = "" THEN "ok" ELSE st2.err,
          fetch |-> mode,
          conditional |-> Conditional(lir, prof),
          requests |-> 1,
          listing |-> IF fresh THEN Some(listing) ELSE None,
          added |-> st2.added, changed |-> st2.changed, removed |-> st2.removed]

\* Client.installs with the request answered by mode: the new caches, the
\* request record, and what happened.  refresh is "none" when the cache was
\* fresh enough, else "ok" or the error raised.  requests counts the calls
\* of requests.get on the installations endpoint (line 446): list_installs
\* is entered once and sends one.
Installs(ic, pc, lir, prof, listing, t, live, mode) ==
    LET st0 == [ic |-> ic, pc |-> pc, visited |-> {}, live |-> live,
                added |-> {}, changed |-> {}, removed |-> {}, err |-> ""]
        base == [ic |-> ic, pc |-> pc, lir |-> lir,
                 refresh |-> "none", fetch |-> "none", conditional |-> FALSE,
                 requests |-> 0,
                 listing |-> None, added |-> {}, changed |-> {}, removed |-> {}]
    IN
    IF ~CacheNeedsRefresh(ic, t) THEN base
    ELSE IF mode = "error"
    THEN [base EXCEPT !.refresh = "FetchError", !.fetch = "error",
                      !.conditional = Conditional(lir, prof), !.requests = 1]
    ELSE
      LET fresh == mode = "full"
          st1 == ApplyYielded(IF fresh THEN listing ELSE CacheValues(ic), fresh, st0)
          st2 == IF st1.err = "" THEN RemoveUnvisited(st1) ELSE st1
      IN [ic |-> IF st2.err = "" THEN CacheSetLastUpdate(st2.ic, t) ELSE st2.ic,
          pc |-> st2.pc,
          lir |-> IF fresh THEN [lir EXCEPT ![prof] = Some("Date")] ELSE lir,
          refresh |-> IF st2.err = "" THEN "ok" ELSE st2.err,
          fetch |-> mode,
          conditional |-> Conditional(lir, prof),
          requests |-> 1,
          listing |-> IF fresh THEN Some(listing) ELSE None,
          added |-> st2.added, changed |-> st2.changed, removed |-> st2.removed]

\* ------------------------------------------- Client.tools and Client.tool
\* A Tool object as the application sees it: its schema and the Servlet
\* object it refers back to.
ToolObj(t, servlet) ==
    [name |-> t.name, description |-> t.description, servlet |-> servlet]

\* an aggregation that leaves out the last install
RECURSIVE AllToolsButLast(_)
AllToolsButLast(items) ==
    IF Len(items) <= 1 THEN << >>
    ELSE [i \in 1..Len(Head(items).value.tools) |->
             [name |-> Head(items).value.tools[i].name,
              description |-> Head(items).value.tools[i].description,
              servlet |-> Head(items).value]]
         \o AllToolsButLast(Tail(items))

\* every Tool of every cached install, installs in cache order
RECURSIVE AllTools(_)
AllTools(items) ==
    IF items = << >> THEN << >>
    ELSE [i \in 1..Len(Head(items).value.tools) |->
             ToolObj(Head(items).value.tools[i], Head(items).value)]
         \o AllTools(Tail(items))

\* tools[tool.name] = tool over AllTools (lines 576-579): a later Tool of
\* the same name overwrites an earlier one.
ToolsDict(ic) ==
    LET all == AllTools(ic.items) IN
    { all[i] : i \in { j \in 1..Len(all) :
                         \A k \in (j + 1)..Len(all) : all[k].name # all[j].name } }

\* a tools dict as name, owning install and its object
ToolRefs(d) == { [name |-> t.name, install |-> t.servlet.name, oid |-> t.servlet.oid] : t \in d }

\* Client.tool(name) (lines 586-590): the first Tool of that name.
FindTool(ic, n) ==
    LET all == AllTools(ic.items)
        hits == { j \in 1..Len(all) : all[j].name = n }
    IN IF hits = {} THEN None
       ELSE Some(all[CHOOSE j \in hits : \A k \in hits : j <= k])

\* ----------------------------------------------------------- Client.plugin
\* What the content endpoint and the plugin runtime can do.
ContentModes == {"ok", "httperr", "neterr"}

\* install.content = res.content (line 654): the body of the answer, the
\* module on success and the error page on an error status (the status is
\* not looked at).
FetchedContent(cf) == IF cf = "ok" THEN "wasm" ELSE "errbody"

\* InstalledPlugin(install, ext.Plugin(manifest, wasi, functions)): the
\* plugin, the Servlet object it wraps, and what its manifest was built of.
NewPlugin(id, install, bytes, opts) ==
    [pid |-> id, oid |-> install.oid, name |-> install.name,
     settings |-> install.settings, content |-> bytes, opts |-> opts]

\* a Client.plugin that caches what it built before the runtime accepted it
PluginCachesFailed(pc, install, opts, pid, cf, instOk) ==
    LET cached == CacheGet(pc, PluginLookupKey(install, opts))
        needFetch == install.content = "none"
        bytes == IF needFetch THEN FetchedContent(cf) ELSE install.content
        base == [pc |-> pc, content |-> install.content, plugin |-> None,
                 err |-> "", instantiated |-> FALSE, fetched |-> FALSE,
                 hit |-> FALSE]
        p == NewPlugin(pid, install, bytes, opts)
    IN
    IF ~IsNone(cached) THEN [base EXCEPT !.plugin = cached, !.hit = TRUE]
    ELSE IF needFetch /\ cf = "neterr"
    THEN [base EXCEPT !.err = "ContentFetchError"]
    ELSE IF ~instOk \/ bytes = "errbody"
    THEN [base EXCEPT !.pc = CacheAdd(pc, PluginStoreKey(install), p),
                      !.content = bytes, !.fetched = needFetch,
                      !.err = "InstantiationError"]
    ELSE
      [base EXCEPT !.pc = CacheAdd(pc, PluginStoreKey(install), p),
                   !.content = bytes, !.fetched = needFetch,
                   !.plugin = Some(p), !.instantiated = TRUE]

\* Client.plugin(install, opts) with the content endpoint answering cf and
\* the runtime accepting the module iff instOk.  Gives the new plugin
\* cache, the content now attached to the install object, the plugin
\* returned (None when an error is raised) and what was done.
Plugin(pc, install, opts, pid, cf, instOk) ==
    LET cached == CacheGet(pc, PluginLookupKey(install, opts))
        needFetch == install.content = "none"
        bytes == IF needFetch THEN FetchedContent(cf) ELSE install.content
        base == [pc |-> pc, content |-> install.content, plugin |-> None,
                 err |-> "", instantiated |-> FALSE, fetched |-> FALSE,
                 hit |-> FALSE]
    IN
    IF ~IsNone(cached) THEN [base EXCEPT !.plugin = cached, !.hit = TRUE]
    ELSE IF needFetch /\ cf = "neterr"
    THEN [base EXCEPT !.err = "ContentFetchError"]
    ELSE IF ~instOk \/ bytes = "errbody"
    THEN [base EXCEPT !.content = bytes, !.fetched = needFetch,
                      !.err = "InstantiationError"]
    ELSE
      LET p == NewPlugin(pid, install, bytes, opts) IN
      [base EXCEPT !.pc = CacheAdd(pc, PluginStoreKey(install), p),
                   !.content = bytes, !.fetched = needFetch,
                   !.plugin = Some(p), !.instantiated = TRUE]

\* install.content is a field of the Servlet object: every reference to the
\* object (the install cache, a Tool the application holds) sees it.
AttachContent(sv, oid, bytes) ==
    IF sv.oid = oid THEN [sv EXCEPT !.content = bytes] ELSE sv

AttachInCache(ic, oid, bytes) ==
    [ic EXCEPT !.items = [i \in 1..Len(ic.items) |->
        [ic.items[i] EXCEPT !.value = AttachContent(ic.items[i].value, oid, bytes)]]]

AttachInHeld(h, oid, bytes) ==
    IF IsNone(h) THEN h
    ELSE Some([The(h) EXCEPT !.servlet = AttachContent(The(h).servlet, oid, bytes)])

\* ------------------------------------------------------------ observations
\* obs records what the last client operation did, and is reset by every
\* step of the environment.  beforeNames and pluginsBefore are the names in
\* the install cache and in the plugin cache when a refresh began.  prior is the call made just before, when that
\* call ran on a plugin and no refresh came between.  lastRefresh is the time
\* of the last refresh that completed, forgotten when the cache is cleared.
\* target is the profile an operation was asked about, yielded what a direct
\* list_installs gave, each installation with the profile it was fetched for.
\* For install, uninstall, create_task, create_profile and delete_profile,
\* owner is the user of the profile the caller named, target the profile
\* handed to the API and requests the HTTP requests sent.
NoObs ==
    [op |-> "init", err |-> "", refresh |-> "none", fetch |-> "none",
     requests |-> 0, conditional |-> FALSE, profile |-> "default", listing |-> None,
     beforeNames |-> {}, differing |-> {}, pluginsBefore |-> {},
     added |-> {}, changed |-> {}, removed |-> {},
     tool |-> "", byName |-> FALSE, opts |-> DefaultOpts, oid |-> 0,
     install |-> "", plugin |-> None, instantiated |-> FALSE, fetched |-> FALSE,
     prior |-> None, result |-> {}, lastRefresh |-> None,
     target |-> "", yielded |-> << >>, owner |-> "~"]

\* the listed fields of a Servlet object
ListedFields(sv) ==
    Listed(sv.name, sv.settings, sv.tools)

\* the names both cached and listed whose listed fields are not the same
Differing(ic, listing) ==
    { l.name : l \in { x \in SeqToSet(listing) :
         /\ CacheContains(ic, NameKey(x.name))
         /\ ListedFields(The(CacheGet(ic, NameKey(x.name)))) # x } }

InstallNames(ic) == { ic.items[i].value.name : i \in 1..Len(ic.items) }

\* the part of obs a run of Client.installs fills in
ObsRefresh(o, r, prof, ic, pc) ==
    [o EXCEPT !.refresh = r.refresh, !.fetch = r.fetch,
              !.requests = r.requests, !.conditional = r.conditional, !.profile = prof,
              !.listing = r.listing,
              !.beforeNames = IF r.refresh = "none" THEN {} ELSE InstallNames(ic),
              !.differing = IF IsNone(r.listing) THEN {}
                            ELSE Differing(ic, The(r.listing)),
              !.pluginsBefore = IF r.refresh = "none" THEN {}
                                ELSE { pc.items[i].value.name : i \in 1..Len(pc.items) },
              !.added = r.added, !.changed = r.changed, !.removed = r.removed]

Refreshed(r) == r.refresh # "none"

\* A thread's Client.call: where it is, the Tool it resolved, the plugin it
\* got, and what it did.  raced: the thread missed the plugin cache while
\* another thread was between its own miss and its plugin_cache.add.
NoCall ==
    [at |-> "idle", tool |-> None, plugin |-> None, err |-> "",
     instantiated |-> FALSE, fetched |-> FALSE, raced |-> FALSE]

\* ------------------------------------------------------ task.py: TaskRun
\* What the registry reports of a task run: a status and, unless the key
\* is absent (None), the messages produced so far.  A message carries an
\* error or a last message whose content is a str or a list of parts.
Statuses == {"running", "pending", "ready", "error"}
ResultLists ==
    LET TextPart(t) == [type |-> "text", text |-> t]
        MsgError == [error |-> Some("failed"), content |-> None]
        MsgText == [error |-> None,
                    content |-> Some([kind |-> "list", parts |-> << TextPart("done") >>])]
        MsgParts == [error |-> None,
                     content |-> Some([kind |-> "list",
                                       parts |-> << TextPart("one"), TextPart("two") >>])]
        MsgStr == [error |-> None, content |-> Some([kind |-> "str", text |-> "done"])]
    IN { << >>, << MsgText >>, << MsgStr >>, << MsgParts, MsgError >> }
RemoteRuns == [status : Statuses, results : {None} \cup { Some(l) : l \in ResultLists }]

\* data.get("results", []), line 170
ResultsOrEmpty(data) == IF IsNone(data.results) THEN << >> ELSE The(data.results)

\* timeout is None or a timedelta, interval a timedelta; a request takes
\* at least one unit of the clock.
Timeouts == {None} \cup { Some(t) : t \in 1..MaxTimeout }
Intervals == 0..MaxInterval
Latencies == 1..MaxLatency

NewTaskRun(st, rl, u) == [status |-> st, results_list |-> rl, url |-> u]

NoWait ==
    [at |-> "idle", start |-> 0, timeout |-> None, interval |-> 0, polls |-> 0,
     data |-> "", elapsed |-> 0, ret |-> None, err |-> ""]

\* no task run is waited for
TaskIdle ==
    /\ task_run = NewTaskRun("running", << >>, None)
    /\ remote_run = [status |-> "running", results |-> None]
    /\ wait = NoWait

\* lines 63-66: a list of one text part is returned as its text
Unwrap(c) ==
    IF c.kind = "list" /\ Len(c.parts) = 1 /\ c.parts[Len(c.parts)].type = "text"
    THEN [kind |-> "str", text |-> c.parts[Len(c.parts)].text]
    ELSE c

\* TaskRun.results(wait=False) on the object r: the exception it raises
\* ("" for none) and the value it returns
Results(r) ==
    IF r.status = "running" THEN [err |-> "", ret |-> None]
    ELSE IF r.results_list = << >> THEN [err |-> "IndexError", ret |-> None]
    ELSE LET msg == r.results_list[Len(r.results_list)] IN
         IF r.status = "error"
         THEN [err |-> IF IsNone(msg.error) THEN "KeyError" ELSE "Exception",
               ret |-> None]
         ELSE [err |-> "",
               ret |-> IF IsNone(msg.content) THEN None
                       ELSE Some(Unwrap(The(msg.content)))]

\* line 46 with the time n since start: a wait without the second test
WaitTimedOutLate(n, timeout, interval) ==
    /\ ~IsNone(timeout)
    /\ n > The(timeout)

\* line 46: the wait gives up
WaitTimedOut(n, timeout, interval) ==
    /\ ~IsNone(timeout)
    /\ (n > The(timeout) \/ n + interval > The(timeout))

\* ------------------------------------------------------------------- Init
Init ==
    /\ \E l \in InitListings : remote = Registry(l)
    /\ remoteChanges = 0
    /\ unmodified = {}
    /\ now = 0
    /\ profile = "default"
    /\ install_cache = NewCache(Some(RefreshTime))
    /\ plugin_cache = NewCache(None)
    /\ last_installations_request = [p \in Slugs |-> None]
    /\ held = None
    /\ lastRefresh = None
    /\ calls = [t \in Threads |-> NoCall]
    /\ obs = NoObs
    /\ TaskIdle

\* ------------------------------------------------------------ environment
\* The environment does not touch the client; obs describes the state right
\* after a client operation only, and is reset by every other step.
EnvUnchanged ==
    /\ obs' = NoObs
    /\ UNCHANGED << profile, install_cache, plugin_cache,
                    last_installations_request, held, lastRefresh, calls >>

\* datetime.now() moves on.
Tick ==
    /\ now < MaxTime
    /\ now' = now + 1
    /\ UNCHANGED << remote, remoteChanges, unmodified, taskVars >>
    /\ EnvUnchanged

\* Between two accesses of the client the registry's listing of profile
\* default becomes l: servlets were installed, uninstalled, reconfigured
\* (settings) or updated (tools).
RemoteChange(l) ==
    /\ remoteChanges < MaxRemoteChanges
    /\ l # remote["default"]
    /\ remote' = [remote EXCEPT !["default"] = l]
    /\ remoteChanges' = remoteChanges + 1
    /\ unmodified' = unmodified \ {"default"}
    /\ UNCHANGED << now, taskVars >>
    /\ EnvUnchanged

\* ---------------------------------------------------------- Client.tools
\* The request of an access that needs no refresh is never sent: its mode
\* is immaterial and fixed to "full".
ModeOk(mode) ==
    IF CacheNeedsRefresh(install_cache, now)
    THEN FetchPossible(mode, last_installations_request, profile, unmodified)
    ELSE mode = "full"

\* the call made just before this operation, if it ran on a plugin
PriorCall ==
    IF obs.op = "call" /\ ~IsNone(obs.plugin)
    THEN Some([tool |-> obs.tool, oid |-> obs.oid, opts |-> obs.opts,
               pid |-> The(obs.plugin).pid])
    ELSE None

\* the Servlet objects referred to from outside the install cache: by the
\* Tool the application holds, by the cached plugins, by the last caller and
\* by the threads
LiveServlets ==
    (IF IsNone(held) THEN {} ELSE {The(held).servlet.oid})
    \cup { plugin_cache.items[i].value.oid : i \in 1..Len(plugin_cache.items) }
    \cup (IF IsNone(PriorCall) THEN {} ELSE {The(PriorCall).oid})
    \cup { The(calls[t].tool).servlet.oid : t \in { u \in Threads : ~IsNone(calls[u].tool) } }

\* the plugins referred to: by the plugin cache, the last caller, the threads
LivePlugins(pc) ==
    { pc.items[i].value.pid : i \in 1..Len(pc.items) }
    \cup (IF IsNone(PriorCall) THEN {} ELSE {The(PriorCall).pid})
    \cup { The(calls[t].plugin).pid : t \in { u \in Threads : ~IsNone(calls[u].plugin) } }

RunInstalls(mode) ==
    Installs(install_cache, plugin_cache, last_installations_request, profile,
             remote[profile], now, LiveServlets, mode)

\* A full answer carries the Date the registry will compare against.
Answered(r) ==
    IF r.fetch = "full" THEN unmodified \cup {profile} ELSE unmodified

Raised(r) == r.refresh \notin {"none", "ok"}

\* what a run of Client.installs leaves behind, whatever reads it
InstallsEffect(r) ==
    /\ last_installations_request' = r.lir
    /\ unmodified' = Answered(r)
    /\ lastRefresh' = IF r.refresh = "ok" THEN Some(now) ELSE lastRefresh
    /\ UNCHANGED << remote, remoteChanges, now, taskVars, profile, calls >>

\* The application reads client.tools.
Tools ==
    \E mode \in FetchModes :
      LET r == RunInstalls(mode)
          o == ObsRefresh([NoObs EXCEPT !.op = "tools", !.lastRefresh = lastRefresh],
                          r, profile, install_cache, plugin_cache)
      IN
      /\ ModeOk(mode)
      /\ InstallsEffect(r)
      /\ install_cache' = r.ic
      /\ plugin_cache' = r.pc
      /\ held' = held
      /\ obs' = IF Raised(r) THEN [o EXCEPT !.err = r.refresh]
                ELSE [o EXCEPT !.result = ToolRefs(ToolsDict(r.ic))]

\* The application reads client.tools and keeps one of the Tool objects (it
\* keeps at most one Tool, the first it chooses to keep).
ToolsKeep ==
    \E mode \in FetchModes :
      LET r == RunInstalls(mode)
          o == ObsRefresh([NoObs EXCEPT !.op = "tools", !.lastRefresh = lastRefresh],
                          r, profile, install_cache, plugin_cache)
      IN
      /\ IsNone(held)
      /\ ModeOk(mode)
      /\ ~Raised(r)
      /\ InstallsEffect(r)
      /\ install_cache' = r.ic
      /\ plugin_cache' = r.pc
      /\ \E t \in ToolsDict(r.ic) : held' = Some(t)
      /\ obs' = [o EXCEPT !.result = ToolRefs(ToolsDict(r.ic))]

\* ------------------------------------------------- Client.list_installs
\* The application calls client.list_installs(P) itself (P is the active
\* profile when the argument is left out) and walks the generator to its
\* end.  Lines 443-445 build the header from the record for P, line 459
\* records the Date of a full answer under P, lines 462-485 yield new
\* Servlet objects; on the not-modified answer lines 456-457 yield the
\* values of install_cache, which holds what was fetched for the active
\* profile.  No cache is written.
ListInstalls(P) ==
    \E mode \in FetchModes :
      /\ FetchPossible(mode, last_installations_request, P, unmodified)
      /\ last_installations_request' =
           IF mode = "full" THEN [last_installations_request EXCEPT ![P] = Some("Date")]
           ELSE last_installations_request
      /\ unmodified' = IF mode = "full" THEN unmodified \cup {P} ELSE unmodified
      /\ obs' = [NoObs EXCEPT
                   !.op = "list_installs", !.profile = profile, !.target = P,
                   !.fetch = mode, !.requests = 1,
                   !.conditional = Conditional(last_installations_request, P),
                   !.err = IF mode = "error" THEN "FetchError" ELSE "",
                   !.yielded =
                      IF mode = "full"
                      THEN [i \in 1..Len(remote[P]) |->
                              [profile |-> P, install |-> remote[P][i]]]
                      ELSE IF mode = "notmod"
                      THEN [i \in 1..Len(install_cache.items) |->
                              [profile |-> profile,
                               install |-> ListedFields(install_cache.items[i].value)]]
                      ELSE << >>]
      /\ UNCHANGED << remote, remoteChanges, now, taskVars, profile, install_cache,
                      plugin_cache, held, lastRefresh, calls >>

\* ------------------------------------------------------- a second Client
\* The application constructs another Client (lines 207-225: caches of its
\* own, ClientConfig() with profile default) and reads its tools.
\* last_installations_request is an attribute of the class (line 202) that
\* __init__ does not set: until a client runs clear_cache (line 234), which
\* gives that client a dict of its own, self.last_installations_request is
\* the one dict of the class for every client, and line 459 writes into it.
\* The variable last_installations_request is that dict as long as the
\* first client has not cleared.
NewClientTools ==
    \E mode \in FetchModes :
      LET ic0 == NewCache(Some(RefreshTime))
          pc0 == NewCache(None)
          r == Installs(ic0, pc0, last_installations_request, "default",
                        remote["default"], now, {}, mode)
          o == ObsRefresh([NoObs EXCEPT !.op = "new_client_tools"],
                          r, "default", ic0, pc0)
      IN
      /\ FetchPossible(mode, last_installations_request, "default", unmodified)
      /\ last_installations_request' = r.lir
      /\ unmodified' = IF r.fetch = "full" THEN unmodified \cup {"default"}
                       ELSE unmodified
      /\ obs' = IF Raised(r) THEN [o EXCEPT !.err = r.refresh]
                ELSE [o EXCEPT !.result = ToolRefs(ToolsDict(r.ic))]
      /\ UNCHANGED << remote, remoteChanges, now, taskVars, profile, install_cache,
                      plugin_cache, held, lastRefresh, calls >>

\* a tools dict as name, owning install and description
ToolSchemas(d) ==
    { [name |-> t.name, install |-> t.servlet.name, description |-> t.description] : t \in d }

\* what client.tools can give in this state: for every answer the registry
\* can make now, the error raised or the tools returned
ToolsOutcomes ==
    { LET r == RunInstalls(mode) IN
      [err |-> IF Raised(r) THEN r.refresh ELSE "",
       tools |-> IF Raised(r) THEN {} ELSE ToolSchemas(ToolsDict(r.ic))]
      : mode \in { m \in FetchModes : ModeOk(m) } }

\* ------------------------------------------------------------ Client.call
\* Lines 699-700 for a resolved Tool: plugin(tool.servlet, ...) and then
\* plugin.call.  The content endpoint answers cf when it is asked, the
\* runtime accepts the module iff instOk, the invocation returns iff invOk;
\* an answer nobody asks for is not drawn.
Dispatch(o, ic, pc, h, prior, tool, opts) ==
    LET hit == ~IsNone(CacheGet(pc, PluginLookupKey(tool.servlet, opts)))
        oid == tool.servlet.oid
        pid == FreshId(LivePlugins(pc))
    IN
    \E cf \in IF hit \/ tool.servlet.content # "none" THEN {"ok"} ELSE ContentModes :
    \E instOk \in IF hit \/ cf # "ok" THEN {TRUE} ELSE BOOLEAN :
      LET p == Plugin(pc, tool.servlet, opts, pid, cf, instOk)
          o1 == [o EXCEPT !.tool = tool.name, !.opts = opts, !.oid = oid,
                          !.install = tool.servlet.name, !.plugin = p.plugin,
                          !.instantiated = p.instantiated, !.fetched = p.fetched,
                          !.prior = prior]
      IN
      /\ install_cache' = AttachInCache(ic, oid, p.content)
      /\ held' = AttachInHeld(h, oid, p.content)
      /\ plugin_cache' = p.pc
      /\ IF p.err # "" THEN obs' = [o1 EXCEPT !.err = p.err]
         ELSE \E invOk \in BOOLEAN :
                obs' = [o1 EXCEPT !.err = IF invOk THEN "" ELSE "InvocationError"]

\* client.call("name", ...): resolve the name with Client.tool, which reads
\* Client.installs and so may refresh.
CallByName(n, options) ==
    \E mode \in FetchModes :
      LET r == RunInstalls(mode)
          o == ObsRefresh([NoObs EXCEPT !.op = "call", !.byName = TRUE, !.tool = n,
                                        !.lastRefresh = lastRefresh],
                          r, profile, install_cache, plugin_cache)
          found == FindTool(r.ic, n)
      IN
      /\ ModeOk(mode)
      /\ InstallsEffect(r)
      /\ IF Raised(r) \/ IsNone(found)
         THEN /\ install_cache' = r.ic
              /\ plugin_cache' = r.pc
              /\ held' = held
              /\ obs' = [o EXCEPT !.err = IF Raised(r) THEN r.refresh
                                          ELSE "ToolNotFound"]
         ELSE \E opts \in options :
                Dispatch(o, r.ic, r.pc, held,
                         IF Refreshed(r) THEN None ELSE PriorCall,
                         The(found), opts)

\* client.call(tool, ...) with a Tool object the application kept: no
\* lookup, and so no refresh.
CallByTool(options) ==
    /\ ~IsNone(held)
    /\ \E opts \in options :
         Dispatch([NoObs EXCEPT !.op = "call", !.profile = profile,
                                !.lastRefresh = lastRefresh],
                  install_cache, plugin_cache, held, PriorCall, The(held), opts)
    /\ UNCHANGED << remote, remoteChanges, unmodified, now, taskVars, profile,
                    last_installations_request, lastRefresh, calls >>

\* ------------------------------------- Client.clear_cache / set_profile
ClearCache ==
    /\ last_installations_request' = [p \in Slugs |-> None]
    /\ install_cache' = CacheClear(install_cache)
    /\ plugin_cache' = CacheClear(plugin_cache)
    /\ lastRefresh' = None
    /\ obs' = [NoObs EXCEPT !.op = "clear_cache", !.profile = profile]
    /\ UNCHANGED << remote, remoteChanges, unmodified, now, taskVars, profile, held, calls >>

\* a set_profile that switches and keeps the caches
SetProfileKeepsCaches(p) ==
    /\ obs' = [NoObs EXCEPT !.op = "set_profile", !.profile = profile, !.target = p]
    /\ profile' = p
    /\ UNCHANGED << remote, remoteChanges, unmodified, now, taskVars, held, calls,
                    last_installations_request, install_cache, plugin_cache,
                    lastRefresh >>

\* a set_profile that clears the caches whatever the profile is
SetProfileAlwaysClears(p) ==
    /\ obs' = [NoObs EXCEPT !.op = "set_profile", !.profile = profile, !.target = p]
    /\ profile' = p
    /\ last_installations_request' = [q \in Slugs |-> None]
    /\ install_cache' = CacheClear(install_cache)
    /\ plugin_cache' = CacheClear(plugin_cache)
    /\ lastRefresh' = None
    /\ UNCHANGED << remote, remoteChanges, unmodified, now, taskVars, held, calls >>

\* client.set_profile(p) with p a str (lines 244-246); obs.target is the
\* profile it was given.
SetProfile(p) ==
    /\ obs' = [NoObs EXCEPT !.op = "set_profile", !.profile = profile, !.target = p]
    /\ IF p # profile
       THEN /\ profile' = p
            /\ last_installations_request' = [q \in Slugs |-> None]
            /\ install_cache' = CacheClear(install_cache)
            /\ plugin_cache' = CacheClear(plugin_cache)
            /\ lastRefresh' = None
       ELSE UNCHANGED << profile, last_installations_request, install_cache,
                         plugin_cache, lastRefresh >>
    /\ UNCHANGED << remote, remoteChanges, unmodified, now, taskVars, held, calls >>

\* ------------------------------------------------ api.py and the mutations
\* api.py takes a profile as a slug and reads p.user (line 9); client.py
\* hands it a str.  The user of a str is read as ProfileSlug.parse reads it
\* (types.py:31-35): the part before "/", and "~" when there is no "/".
SlugUser(p) == IF p \in {"other/pub", "other/new"} THEN "other" ELSE "~"

\* fix_profile(p, only_self): the error it raises, "" for none
FixProfile(p, only_self) ==
    IF only_self /\ SlugUser(p) # "~" THEN "InvalidUserError" ELSE ""

\* A Profile object, slug "username/name"; "me" is the name of the current
\* user.  Profile.name is the part after the "/" (profile.py:31-33).
ProfileObj(u, n) == [username |-> u, name |-> n]
ProfileObjects ==
    { ProfileObj("me", "default"), ProfileObj("me", "work"), ProfileObj("other", "pub") }
ProfileArgs == {None} \cup { Some(x) : x \in ProfileObjects }

\* the user whose profile the caller named with a Profile object
ObjOwner(x) == IF x.username = "me" THEN "~" ELSE x.username

\* The registry installs sv under its name, over an installation of that
\* name (allow_update) or after the others; and uninstalls a name.
InstallInto(l, sv) ==
    IF sv.name \in ListingNames(l)
    THEN [i \in 1..Len(l) |-> IF l[i].name = sv.name THEN sv ELSE l[i]]
    ELSE Append(l, sv)

UninstallFrom(l, n) == SeqFilter(l, { x \in SeqToSet(l) : x.name # n })

\* nothing but obs changes
OnlyObs ==
    UNCHANGED << remote, remoteChanges, unmodified, now, taskVars, profile, install_cache,
                 plugin_cache, last_installations_request, held, lastRefresh, calls >>

\* Lines 541-543 / 512-514 (the profile the request is for), api.install /
\* api.uninstall (fix_profile with only_self), the request, raise_for_status
\* and lines 567-568 / 525-526: clear_cache when no profile was passed.
\* newListing is what the registry makes of the target's listing when it
\* accepts; it accepts only a request for a profile the user has.
InstallOrUninstall(op, arg, profile_name, newListing) ==
    LET o == [NoObs EXCEPT !.op = op, !.profile = profile, !.target = profile_name,
                           !.owner = IF IsNone(arg) THEN SlugUser(profile)
                                     ELSE ObjOwner(The(arg))]
    IN
    IF FixProfile(profile_name, TRUE) # ""
    THEN /\ obs' = [o EXCEPT !.err = FixProfile(profile_name, TRUE)]
         /\ OnlyObs
    ELSE \E ok \in BOOLEAN :
           IF ok
           THEN /\ profile_name \in Profiles
                /\ remoteChanges < MaxRemoteChanges
                /\ newListing # remote[profile_name]
                /\ remote' = [remote EXCEPT ![profile_name] = newListing]
                /\ remoteChanges' = remoteChanges + 1
                /\ unmodified' = unmodified \ {profile_name}
                /\ obs' = [o EXCEPT !.requests = 1]
                /\ IF IsNone(arg)
                   THEN /\ last_installations_request' = [q \in Slugs |-> None]
                        /\ install_cache' = CacheClear(install_cache)
                        /\ plugin_cache' = CacheClear(plugin_cache)
                        /\ lastRefresh' = None
                   ELSE UNCHANGED << last_installations_request, install_cache,
                                     plugin_cache, lastRefresh >>
                /\ UNCHANGED << now, taskVars, profile, held, calls >>
           ELSE /\ obs' = [o EXCEPT !.requests = 1, !.err = "HTTPError"]
                /\ OnlyObs

\* client.install(servlet, profile=arg), the servlet installed as sv
Install(arg, sv) ==
    LET profile_name == IF IsNone(arg) THEN profile ELSE The(arg).name IN
    InstallOrUninstall("install", arg, profile_name,
                       IF profile_name \in Profiles
                       THEN InstallInto(remote[profile_name], sv) ELSE << >>)

\* client.uninstall(n, profile=arg)
Uninstall(arg, n) ==
    LET profile_name == IF IsNone(arg) THEN profile ELSE The(arg).name IN
    InstallOrUninstall("uninstall", arg, profile_name,
                       IF profile_name \in Profiles
                       THEN UninstallFrom(remote[profile_name], n) ELSE << >>)

\* create_task, create_profile and delete_profile once the profile is known:
\* the api method (fix_profile with only_self), then one request that the
\* registry accepts or answers with an error status.  Tasks and the set of
\* profiles are not part of the model: only obs changes.
ProfileRequest(op, owner, profile_name) ==
    LET o == [NoObs EXCEPT !.op = op, !.profile = profile, !.target = profile_name,
                           !.owner = owner]
    IN
    /\ IF FixProfile(profile_name, TRUE) # ""
       THEN obs' = [o EXCEPT !.err = FixProfile(profile_name, TRUE)]
       ELSE \E ok \in BOOLEAN :
              obs' = [o EXCEPT !.requests = 1, !.err = IF ok THEN "" ELSE "HTTPError"]
    /\ OnlyObs

\* client.create_task(...): the task goes to config.profile (line 264)
CreateTask == ProfileRequest("create_task", SlugUser(profile), profile)

\* client.create_profile(name) (line 299)
CreateProfile(name) == ProfileRequest("create_profile", SlugUser(name), name)

\* client.delete_profile(p) with p a str or a Profile object, of which line
\* 707 takes the name
DeleteProfile(p, isObject) ==
    ProfileRequest("delete_profile",
                   IF isObject THEN ObjOwner(p) ELSE SlugUser(p),
                   IF isObject THEN p.name ELSE p)

MutationOps == {"install", "uninstall", "create_task", "create_profile", "delete_profile"}

\* Profile.slug of a Profile object, as the registry reports it:
\* "username/name" (client.py:343-345).
ProfileSlugOf(x) == x.username \o "/" \o x.name

\* client.set_profile(x) with x a Profile object: lines 242-243 take its
\* slug, and the rest is set_profile of that str.
SetProfileObject(x) == SetProfile(ProfileSlugOf(x))

\* ------------------------------------------------------------------- Next
Next ==
    \/ Tick
    \/ \E l \in Listings : RemoteChange(l)
    \/ Tools
    \/ \E n \in ToolNames : CallByName(n, {DefaultOpts})
    \/ ClearCache
    \/ \E p \in Profiles : SetProfile(p)

Spec == Init /\ [][Next]_vars

\* The same client on a registry whose profile default lists, to begin
\* with, the one servlet b with its tool t1.
InitSolo ==
    /\ remote = Registry(<< Listed("b", "A", << ToolT1d1 >>) >>)
    /\ remoteChanges = 0
    /\ unmodified = {}
    /\ now = 0
    /\ profile = "default"
    /\ install_cache = NewCache(Some(RefreshTime))
    /\ plugin_cache = NewCache(None)
    /\ last_installations_request = [p \in Slugs |-> None]
    /\ held = None
    /\ lastRefresh = None
    /\ calls = [t \in Threads |-> NoCall]
    /\ obs = NoObs
    /\ TaskIdle

SpecSolo == InitSolo /\ [][Next]_vars

\* An application that keeps a Tool object and calls it.
NextTool ==
    \/ Tick
    \/ \E l \in Listings : RemoteChange(l)
    \/ Tools
    \/ ToolsKeep
    \/ CallByTool({DefaultOpts})
    \/ \E p \in Profiles : SetProfile(p)

SpecTool == Init /\ [][NextTool]_vars

\* A registry that changes under calls with and without wasi.
NextVariants ==
    \/ Tick
    \/ \E l \in Listings : RemoteChange(l)
    \/ Tools
    \/ \E n \in ToolNames : CallByName(n, BasicOptions)

SpecVariants == Init /\ [][NextVariants]_vars

\* A registry that does not change, and calls with every kind of option.
NextOptions ==
    \/ Tick
    \/ Tools
    \/ \E n \in ToolNames : CallByName(n, OptionSets)
    \/ ClearCache

SpecOptions == Init /\ [][NextOptions]_vars

\* An application that also lists installations itself.
NextList ==
    \/ Tick
    \/ \E l \in Listings : RemoteChange(l)
    \/ Tools
    \/ \E P \in Profiles : ListInstalls(P)

SpecList == Init /\ [][NextList]_vars

\* An application that installs and uninstalls servlets, creates tasks and
\* profiles and deletes profiles, on its own profiles and on the public
\* profile of another user.
NextMutate ==
    \/ Tick
    \/ Tools
    \/ \E p \in Slugs : SetProfile(p)
    \/ \E arg \in ProfileArgs, sv \in Variants("a") \cup Variants("b") : Install(arg, sv)
    \/ \E arg \in ProfileArgs, n \in Names : Uninstall(arg, n)
    \/ CreateTask
    \/ \E name \in {"new", "other/new"} : CreateProfile(name)
    \/ \E p \in {"old", "other/pub"} : DeleteProfile(p, FALSE)
    \/ \E p \in {ProfileObj("me", "old"), ProfileObj("other", "pub")} : DeleteProfile(p, TRUE)

SpecMutate == Init /\ [][NextMutate]_vars

\* An application with two clients: the first reads tools and lists
\* installations, and now and then a second one is constructed and read.
NextTwo ==
    \/ Tick
    \/ \E l \in Listings : RemoteChange(l)
    \/ Tools
    \/ \E P \in Profiles : ListInstalls(P)
    \/ NewClientTools

SpecTwo == Init /\ [][NextTwo]_vars

\* An application that selects profiles, by name and by Profile object, its
\* own and the public profile of another user, and reads and calls tools in
\* between.
NextProfile ==
    \/ Tick
    \/ Tools
    \/ \E n \in ToolNames : CallByName(n, {DefaultOpts})
    \/ \E p \in Slugs : SetProfile(p)
    \/ \E x \in { ProfileObj("other", "pub") } : SetProfileObject(x)

SpecProfile == Init /\ [][NextProfile]_vars

\* ------------------------------------------- Client.call on two threads
\* Threads of one application call client.call("t1") with the default
\* options on the one Client.  Client.plugin takes no lock, so a thread can
\* be preempted between the statements of lines 641-671; the steps below cut
\* it where it waits for the network or for the runtime.
ConcTool == "t1"
ConcOpts == DefaultOpts

InFlight(t) == calls[t].at \in {"missed", "fetching", "ready"}

AttachInCalls(cs, oid, bytes) ==
    [t \in Threads |->
       IF IsNone(cs[t].tool) THEN cs[t]
       ELSE [cs[t] EXCEPT !.tool =
               Some([The(cs[t].tool) EXCEPT
                       !.servlet = AttachContent(The(cs[t].tool).servlet, oid, bytes)])]]

\* Lines 694-698 and 635-643: resolve the name (Client.installs may
\* refresh) and look the plugin up.
ConcBegin(t) ==
    /\ calls[t].at = "idle"
    /\ \E mode \in FetchModes :
         LET r == RunInstalls(mode)
             found == FindTool(r.ic, ConcTool)
             cached == IF IsNone(found) THEN None
                       ELSE CacheGet(r.pc, PluginLookupKey(The(found).servlet, ConcOpts))
         IN
         /\ ModeOk(mode)
         /\ last_installations_request' = r.lir
         /\ unmodified' = Answered(r)
         /\ lastRefresh' = IF r.refresh = "ok" THEN Some(now) ELSE lastRefresh
         /\ install_cache' = r.ic
         /\ plugin_cache' = r.pc
         /\ calls' = [calls EXCEPT ![t] =
              IF Raised(r) THEN [@ EXCEPT !.at = "done", !.err = r.refresh]
              ELSE IF IsNone(found) THEN [@ EXCEPT !.at = "done", !.err = "ToolNotFound"]
              ELSE IF ~IsNone(cached)
              THEN [@ EXCEPT !.at = "have", !.tool = found, !.plugin = cached]
              ELSE [@ EXCEPT !.at = "missed", !.tool = found,
                             !.raced = \E u \in Threads \ {t} : InFlight(u)]]
    /\ obs' = NoObs
    /\ UNCHANGED << remote, remoteChanges, now, taskVars, profile, held >>

ConcUnchanged ==
    /\ obs' = NoObs
    /\ UNCHANGED << remote, remoteChanges, unmodified, now, taskVars, profile,
                    last_installations_request, held, lastRefresh >>

\* Lines 644-652: install.content is None, the request for the module is
\* sent; or the content is there and nothing is sent.
ConcSend(t) ==
    /\ calls[t].at = "missed"
    /\ calls' = [calls EXCEPT ![t].at =
                   IF The(calls[t].tool).servlet.content = "none"
                   THEN "fetching" ELSE "ready"]
    /\ UNCHANGED << install_cache, plugin_cache >>
    /\ ConcUnchanged

\* Lines 647-654: the answer arrives, install.content = res.content.
ConcReceive(t) ==
    /\ calls[t].at = "fetching"
    /\ \E cf \in ContentModes :
         LET oid == The(calls[t].tool).servlet.oid IN
         IF cf = "neterr"
         THEN /\ calls' = [calls EXCEPT ![t].at = "done",
                                        ![t].err = "ContentFetchError"]
              /\ UNCHANGED install_cache
         ELSE /\ calls' = [AttachInCalls(calls, oid, FetchedContent(cf))
                             EXCEPT ![t].at = "ready", ![t].fetched = TRUE]
              /\ install_cache' = AttachInCache(install_cache, oid, FetchedContent(cf))
    /\ UNCHANGED plugin_cache
    /\ ConcUnchanged

\* Lines 655-671: the manifest, ext.Plugin, plugin_cache.add.
ConcInstantiate(t) ==
    /\ calls[t].at = "ready"
    /\ LET install == The(calls[t].tool).servlet
           pid == FreshId(LivePlugins(plugin_cache))
       IN
       \E instOk \in IF install.content = "wasm" THEN BOOLEAN ELSE {FALSE} :
         IF ~instOk
         THEN /\ calls' = [calls EXCEPT ![t].at = "done",
                                        ![t].err = "InstantiationError"]
              /\ UNCHANGED plugin_cache
         ELSE LET p == NewPlugin(pid, install, install.content, ConcOpts) IN
              /\ plugin_cache' = CacheAdd(plugin_cache, PluginStoreKey(install), p)
              /\ calls' = [calls EXCEPT ![t].at = "have", ![t].plugin = Some(p),
                                        ![t].instantiated = TRUE]
    /\ UNCHANGED install_cache
    /\ ConcUnchanged

\* Line 700: plugin.call.
ConcInvoke(t) ==
    /\ calls[t].at = "have"
    /\ \E invOk \in BOOLEAN :
         calls' = [calls EXCEPT ![t].at = "done",
                                ![t].err = IF invOk THEN "" ELSE "InvocationError"]
    /\ UNCHANGED << install_cache, plugin_cache >>
    /\ ConcUnchanged

NextConc ==
    \/ Tick
    \/ \E t \in Threads : ConcBegin(t)
    \/ \E t \in Threads : ConcSend(t)
    \/ \E t \in Threads : ConcReceive(t)
    \/ \E t \in Threads : ConcInstantiate(t)
    \/ \E t \in Threads : ConcInvoke(t)

SpecConc == Init /\ [][NextConc]_vars

\* ------------------------------------- Client.installs on two threads
\* Client.installs takes no lock either.  A thread that found
\* needs_refresh() true waits for the registry's answer (requests.get in
\* list_installs, lines 446-452) before it applies it; the header of its
\* request was built before (lines 443-445).
InRefresh(t) == calls[t].at \in {"requesting", "requestingCond"}

\* Line 493 true, and lines 443-452: the request is sent.
RefCheck(t) ==
    /\ calls[t].at = "idle"
    /\ CacheNeedsRefresh(install_cache, now)
    /\ calls' = [calls EXCEPT ![t].at =
                   IF Conditional(last_installations_request, profile)
                   THEN "requestingCond" ELSE "requesting"]
    /\ UNCHANGED << install_cache, plugin_cache >>
    /\ ConcUnchanged

\* Line 493 false: the call goes on with the cache as it is (lines 694-698
\* and 635-643).
RefResolve(t) ==
    /\ calls[t].at = "idle"
    /\ ~CacheNeedsRefresh(install_cache, now)
    /\ LET found == FindTool(install_cache, ConcTool)
           cached == IF IsNone(found) THEN None
                     ELSE CacheGet(plugin_cache, PluginLookupKey(The(found).servlet, ConcOpts))
       IN calls' = [calls EXCEPT ![t] =
              IF IsNone(found) THEN [@ EXCEPT !.at = "done", !.err = "ToolNotFound"]
              ELSE IF ~IsNone(cached)
              THEN [@ EXCEPT !.at = "have", !.tool = found, !.plugin = cached]
              ELSE [@ EXCEPT !.at = "missed", !.tool = found,
                             !.raced = \E u \in Threads \ {t} : InFlight(u)]]
    /\ UNCHANGED << install_cache, plugin_cache >>
    /\ ConcUnchanged

\* Lines 453-506 once the answer is there, whatever last_update has become
\* meanwhile, and then lines 694-698 and 635-643 as in ConcBegin.
RefAnswer(t) ==
    /\ InRefresh(t)
    /\ \E mode \in FetchModes :
         LET forced == [install_cache EXCEPT !.last_update = None]
             r0 == Installs(forced, plugin_cache, last_installations_request,
                            profile, remote[profile], now, LiveServlets, mode)
             r == [r0 EXCEPT !.ic.last_update =
                      IF r0.refresh = "ok" THEN @ ELSE install_cache.last_update]
             found == FindTool(r.ic, ConcTool)
             cached == IF IsNone(found) THEN None
                       ELSE CacheGet(r.pc, PluginLookupKey(The(found).servlet, ConcOpts))
         IN
         /\ mode = "notmod" => (calls[t].at = "requestingCond" /\ profile \in unmodified)
         /\ last_installations_request' = r.lir
         /\ unmodified' = Answered(r)
         /\ lastRefresh' = IF r.refresh = "ok" THEN Some(now) ELSE lastRefresh
         /\ install_cache' = r.ic
         /\ plugin_cache' = r.pc
         /\ calls' = [calls EXCEPT ![t] =
              IF Raised(r) THEN [@ EXCEPT !.at = "done", !.err = r.refresh]
              ELSE IF IsNone(found) THEN [@ EXCEPT !.at = "done", !.err = "ToolNotFound"]
              ELSE IF ~IsNone(cached)
              THEN [@ EXCEPT !.at = "have", !.tool = found, !.plugin = cached]
              ELSE [@ EXCEPT !.at = "missed", !.tool = found,
                             !.raced = \E u \in Threads \ {t} : InFlight(u)]]
    /\ obs' = NoObs
    /\ UNCHANGED << remote, remoteChanges, now, taskVars, profile, held >>

NextRefresh ==
    \/ Tick
    \/ \E t \in Threads : RefCheck(t)
    \/ \E t \in Threads : RefResolve(t)
    \/ \E t \in Threads : RefAnswer(t)
    \/ \E t \in Threads : ConcSend(t)
    \/ \E t \in Threads : ConcReceive(t)
    \/ \E t \in Threads : ConcInstantiate(t)
    \/ \E t \in Threads : ConcInvoke(t)

SpecRefresh == Init /\ [][NextRefresh]_vars

\* ------------------------------------------------- the Cache class alone
\* A program that uses the two Cache objects directly: any add, remove,
\* clear, set_last_update and needs_refresh on the Cache with an interval
\* (install_cache) and on the Cache without one (plugin_cache), while time
\* passes.  obs records what needs_refresh returned.
CacheNames == {"install_cache", "plugin_cache"}
CacheItemKeys == { NameKey(n) : n \in Names }
CacheItemValues == {"x", "y"}

TheCache(which) == IF which = "install_cache" THEN install_cache ELSE plugin_cache

\* the named Cache becomes c, nothing else changes
CacheBecomes(which, c) ==
    /\ install_cache' = IF which = "install_cache" THEN c ELSE install_cache
    /\ plugin_cache' = IF which = "plugin_cache" THEN c ELSE plugin_cache
    /\ obs' = NoObs
    /\ UNCHANGED << remote, remoteChanges, unmodified, now, taskVars, profile,
                    last_installations_request, held, lastRefresh, calls >>

CacheOpAdd(which, k, v) == CacheBecomes(which, CacheAdd(TheCache(which), k, v))

CacheOpRemove(which, k) ==
    /\ CacheContains(TheCache(which), k)
    /\ CacheBecomes(which, CacheRemove(TheCache(which), k))

CacheOpClear(which) == CacheBecomes(which, CacheClear(TheCache(which)))

CacheOpSetLastUpdate(which) ==
    CacheBecomes(which, CacheSetLastUpdate(TheCache(which), now))

CacheOpNeedsRefresh(which) ==
    /\ obs' = [op |-> "needs_refresh", cache |-> which,
               answer |-> CacheNeedsRefresh(TheCache(which), now)]
    /\ UNCHANGED << remote, remoteChanges, unmodified, now, taskVars, profile, install_cache,
                    plugin_cache, last_installations_request, held, lastRefresh,
                    calls >>

NextCache ==
    \/ Tick
    \/ \E w \in CacheNames, k \in CacheItemKeys, v \in CacheItemValues : CacheOpAdd(w, k, v)
    \/ \E w \in CacheNames, k \in CacheItemKeys : CacheOpRemove(w, k)
    \/ \E w \in CacheNames : CacheOpClear(w)
    \/ \E w \in CacheNames : CacheOpSetLastUpdate(w)
    \/ \E w \in CacheNames : CacheOpNeedsRefresh(w)

SpecCache == Init /\ [][NextCache]_vars

\* --------------------------------------------------------- TaskRun.wait
\* One thread waits for a task run that the registry reports on.
clientVars ==
    << remote, remoteChanges, unmodified, profile, install_cache, plugin_cache,
       last_installations_request, held, lastRefresh, calls, obs >>

\* The TaskRun object holds what the registry reported when it was made
\* (Task.run, lines 162-174), or was made without a url.
InitWait ==
    /\ remote = Registry(<< >>)
    /\ remoteChanges = 0
    /\ unmodified = {}
    /\ now = 0
    /\ profile = "default"
    /\ install_cache = NewCache(Some(RefreshTime))
    /\ plugin_cache = NewCache(None)
    /\ last_installations_request = [p \in Slugs |-> None]
    /\ held = None
    /\ lastRefresh = None
    /\ calls = [t \in Threads |-> NoCall]
    /\ obs = NoObs
    /\ remote_run \in RemoteRuns
    /\ \E u \in {None, Some("url")} :
         task_run = NewTaskRun(remote_run.status, ResultsOrEmpty(remote_run), u)
    /\ wait = NoWait

\* The registry: the run goes on (more messages) or ends.
RemoteRunChange(r) ==
    /\ remote_run.status = "running"
    /\ r # remote_run
    /\ remote_run' = r
    /\ UNCHANGED << now, task_run, wait, clientVars >>

\* run.wait(interval, timeout), lines 32-35
WaitBegin(interval, timeout) ==
    /\ wait.at = "idle"
    /\ wait' = IF IsNone(task_run.url)
               THEN [NoWait EXCEPT !.at = "done", !.start = now, !.timeout = timeout,
                                   !.interval = interval, !.err = "Exception"]
               ELSE [NoWait EXCEPT !.at = "poll", !.start = now, !.timeout = timeout,
                                   !.interval = interval]
    /\ UNCHANGED << now, task_run, remote_run, clientVars >>

\* One pass of the loop up to the sleep, lines 37-52, and line 53 when the
\* loop ends: the request takes d, and fails or brings what the registry
\* reports then; data["results"] of line 51 raises KeyError when the key is
\* absent.  A wait without timeout is followed for MaxPolls polls.
WaitPoll(d, ok) ==
    /\ wait.at = "poll"
    /\ wait.polls < MaxPolls
    /\ now' = now + d
    /\ LET n == now' - wait.start
           w == [wait EXCEPT !.polls = wait.polls + 1, !.elapsed = n]
       IN
       IF ~ok
       THEN /\ wait' = [w EXCEPT !.at = "done", !.data = "", !.err = "HTTPError"]
            /\ UNCHANGED task_run
       ELSE IF remote_run.status = "running"
       THEN /\ wait' = [w EXCEPT !.data = "running",
                                 !.at = IF WaitTimedOut(n, wait.timeout, wait.interval)
                                        THEN "done" ELSE "sleep"]
            /\ UNCHANGED task_run
       ELSE IF IsNone(remote_run.results)
       THEN /\ wait' = [w EXCEPT !.at = "done", !.data = remote_run.status,
                                 !.err = "KeyError"]
            /\ UNCHANGED task_run
       ELSE /\ task_run' = [task_run EXCEPT !.results_list = The(remote_run.results),
                                            !.status = remote_run.status]
            /\ wait' = [w EXCEPT !.at = "done", !.data = remote_run.status,
                                 !.ret = Results(task_run').ret,
                                 !.err = Results(task_run').err]
    /\ UNCHANGED << remote_run, clientVars >>

\* sleep(interval.total_seconds()), line 48
WaitSleep ==
    /\ wait.at = "sleep"
    /\ now' = now + wait.interval
    /\ wait' = [wait EXCEPT !.at = "poll"]
    /\ UNCHANGED << task_run, remote_run, clientVars >>

NextWait ==
    \/ \E r \in RemoteRuns : RemoteRunChange(r)
    \/ \E i \in Intervals, t \in Timeouts : WaitBegin(i, t)
    \/ \E d \in Latencies, ok \in BOOLEAN : WaitPoll(d, ok)
    \/ WaitSleep

\* The thread that waits keeps running: a request is answered or fails, and
\* a sleep ends.
SpecWait ==
    /\ InitWait
    /\ [][NextWait]_vars
    /\ WF_vars(\E d \in Latencies, ok \in BOOLEAN : WaitPoll(d, ok))
    /\ WF_vars(WaitSleep)


\* ================================================================ claims
PluginEntries == { plugin_cache.items[i].value : i \in 1..Len(plugin_cache.items) }

CachedListing == [i \in 1..Len(install_cache.items) |->
                     ListedFields(install_cache.items[i].value)]

\* C1: every entry of plugin_cache was built from the Servlet object that
\* install_cache now holds under the same install name, calls with a Tool
\* object obtained earlier included.
C1_PluginOfCachedServlet ==
    \A p \in PluginEntries :
      /\ CacheContains(install_cache, NameKey(p.name))
      /\ The(CacheGet(install_cache, NameKey(p.name))).oid = p.oid

\* C2: a call that follows a call of the same tool with the same options,
\* with no refresh, profile switch or clear between them, runs on the same
\* InstalledPlugin and instantiates nothing.
C2_SameCallReusesPlugin ==
    ( /\ obs.op = "call"
      /\ ~IsNone(obs.prior)
      /\ ~IsNone(obs.plugin)
      /\ The(obs.prior).tool = obs.tool
      /\ The(obs.prior).oid = obs.oid
      /\ The(obs.prior).opts = obs.opts )
    => /\ The(obs.plugin).pid = The(obs.prior).pid
       /\ ~obs.instantiated

\* C3: after a refresh, plugin_cache holds no entry that was there before
\* the refresh for a name the refresh replaced or removed; the only entry
\* such a name can have is the plugin the refreshing call itself then built.
C3_CascadeInvalidation ==
    \A n \in obs.changed \cup obs.removed :
      \A p \in PluginEntries :
        p.name = n => /\ obs.op = "call"
                      /\ obs.instantiated
                      /\ p = The(obs.plugin)

\* a refresh replaced or removed an install that had a cached plugin
C3_Witness ==
    /\ obs.op = "tools"
    /\ (obs.changed \cup obs.removed) \cap obs.pluginsBefore # {}

\* C4: after a refresh that completes without error, install_cache holds
\* exactly the installations the remote listing of the active profile
\* reports.
C4_CacheIsListing ==
    obs.refresh = "ok"
    => /\ InstallNames(install_cache) = ListingNames(remote[profile])
       /\ SeqToSet(CachedListing) = SeqToSet(remote[profile])

\* C5: a refresh that fetched a listing inserts exactly the listed names
\* that were not cached, replaces exactly the names in both that differ,
\* deletes exactly the cached names that are not listed, and the three sets
\* are pairwise disjoint.
C5_DiffCorrect ==
    obs.fetch = "full"
    => LET B == ListingNames(The(obs.listing)) IN
       /\ obs.added = B \ obs.beforeNames
       /\ obs.changed = obs.differing
       /\ obs.removed = obs.beforeNames \ B
       /\ obs.added \cap obs.changed = {}
       /\ obs.added \cap obs.removed = {}
       /\ obs.changed \cap obs.removed = {}

\* C6: a refresh that fetched a listing leaves no install cached with the
\* listed tools and other settings than the listed ones, and no plugin for
\* it built with such settings; a call that refreshed runs on a plugin built
\* with the listed settings.
C6_SettingsChangeReplaces ==
    obs.fetch = "full"
    => /\ \A i \in 1..Len(The(obs.listing)) :
            LET x == The(obs.listing)[i]
                c == CacheGet(install_cache, NameKey(x.name))
            IN (~IsNone(c) /\ The(c).tools = x.tools)
               => /\ The(c).settings = x.settings
                  /\ \A p \in PluginEntries :
                       p.name = x.name => p.settings = x.settings
       /\ (obs.op = "call" /\ ~IsNone(obs.plugin))
          => \E i \in 1..Len(The(obs.listing)) :
               /\ The(obs.listing)[i].name = obs.install
               /\ The(obs.listing)[i].settings = The(obs.plugin).settings

\* C7: an access made while less than tool_refresh_time has passed since
\* the last completed refresh, with no clear between, sends no installations
\* request: the two accesses send one request in total.
C7_OneFetchWithinInterval ==
    ( /\ obs.op \in {"tools", "call"}
      /\ ~IsNone(obs.lastRefresh)
      /\ now - The(obs.lastRefresh) < RefreshTime )
    => obs.fetch = "none"

\* a second tools() within the interval, after time has passed
C7_Witness ==
    /\ obs.op = "tools"
    /\ ~IsNone(obs.lastRefresh)
    /\ now > The(obs.lastRefresh)
    /\ now - The(obs.lastRefresh) < RefreshTime
    /\ obs.result # {}

\* C8: a call runs on a plugin built for its own options, and two calls of
\* one tool whose options differ never run on the same InstalledPlugin.
C8_OptionsPartition ==
    (obs.op = "call" /\ ~IsNone(obs.plugin))
    => /\ The(obs.plugin).opts = obs.opts
       /\ ( /\ ~IsNone(obs.prior)
            /\ The(obs.prior).tool = obs.tool
            /\ The(obs.prior).opts # obs.opts )
          => The(obs.plugin).pid # The(obs.prior).pid

\* two calls of one tool in a row with different options, both served
C8_Witness ==
    /\ obs.op = "call"
    /\ ~IsNone(obs.plugin)
    /\ ~IsNone(obs.prior)
    /\ The(obs.prior).tool = obs.tool
    /\ The(obs.prior).oid = obs.oid
    /\ The(obs.prior).opts # obs.opts
    /\ CacheContains(plugin_cache, PluginStoreKey([name |-> obs.install]))

\* the state clear_cache leaves: nothing cached, nothing recorded
Cleared ==
    /\ install_cache.items = << >>
    /\ IsNone(install_cache.last_update)
    /\ plugin_cache.items = << >>
    /\ \A q \in Slugs : IsNone(last_installations_request[q])

\* C9: set_profile(p) with p not the current profile makes p current and
\* leaves both caches empty and last_update absent; the tools() access that
\* meets this state sends an unconditional request for the current profile
\* and, when it returns, returns the tools of that profile's listing only.
C9_ProfileSwitch ==
    [][ /\ \A p \in Profiles :
             (p # profile /\ SetProfile(p)) => (profile' = p /\ Cleared')
        /\ (Cleared /\ Tools)
           => /\ obs'.fetch # "none"
              /\ ~obs'.conditional
              /\ obs'.profile = profile
              /\ obs'.err = ""
                 => /\ SeqToSet(CachedListing') = SeqToSet(remote[profile])
                    /\ obs'.result = ToolRefs(ToolsDict(install_cache'))
      ]_vars

\* the first tools() after a switch to profile work has returned its tools
C9_Witness ==
    /\ profile = "work"
    /\ obs.op = "tools"
    /\ IsNone(obs.lastRefresh)
    /\ obs.fetch = "full"
    /\ ~obs.conditional
    /\ obs.result = { [name |-> "t1", install |-> "b",
                       oid |-> install_cache.items[1].value.oid] }

\* C10: when the calls of the threads, for the same tool and options, ran
\* on a plugin and one of them missed the plugin cache while another was
\* still building its plugin, one plugin was instantiated, the module was
\* fetched at most once, and every thread ran on that plugin.
C10_OneInstantiation ==
    ( /\ \A t \in Threads : calls[t].at = "done" /\ ~IsNone(calls[t].plugin)
      /\ \E t \in Threads : calls[t].raced
      /\ \A t, u \in Threads :
           The(calls[t].tool).servlet.oid = The(calls[u].tool).servlet.oid )
    => /\ Cardinality({ t \in Threads : calls[t].instantiated }) = 1
       /\ Cardinality({ t \in Threads : calls[t].fetched }) <= 1
       /\ \A t, u \in Threads : The(calls[t].plugin).pid = The(calls[u].plugin).pid

\* C11: while one thread is between its needs_refresh check and the end of
\* its refresh, no other thread is between its own, and no other thread
\* changes plugin_cache.
C11_RefreshSerialized ==
    [][ /\ \A t, u \in Threads : (t # u /\ InRefresh(t)') => ~InRefresh(u)'
        /\ \A t \in Threads :
             (InRefresh(t) /\ calls'[t] = calls[t]) => plugin_cache' = plugin_cache
      ]_vars

\* C12: a call in which ext.Plugin raises ends with that error and no
\* plugin, adds nothing to plugin_cache (which is as before when the call did
\* not refresh), and the next call of the same tool and options, made without
\* a refresh, constructs ext.Plugin again.
C12_FailedInstantiation ==
    [][ /\ (obs'.op = "call" /\ obs'.err = "InstantiationError")
           => /\ IsNone(obs'.plugin)
              /\ PluginEntries' \subseteq PluginEntries
              /\ obs'.refresh = "none" => plugin_cache' = plugin_cache
        /\ ( /\ obs.op = "call" /\ obs.err = "InstantiationError"
             /\ obs'.op = "call" /\ obs'.refresh = "none"
             /\ obs'.tool = obs.tool /\ obs'.opts = obs.opts
             /\ obs'.err # "ToolNotFound" )
           => (obs'.instantiated \/ obs'.err = "InstantiationError")
      ]_vars

\* C12 as stated: a call in which ext.Plugin raises leaves plugin_cache with
\* exactly the entries it had before the call.
C12_CacheAsBeforeCall ==
    [][ (obs'.op = "call" /\ obs'.err = "InstantiationError")
        => plugin_cache' = plugin_cache ]_vars

\* ext.Plugin raised on a module already fetched while an older plugin was
\* cached
C12_Witness ==
    /\ obs.op = "call"
    /\ obs.err = "InstantiationError"
    /\ obs.refresh = "none"
    /\ ~obs.fetched
    /\ PluginEntries # {}

\* C13: a failed fetch of the module leaves the installation without
\* content: no cached Servlet carries the body of an error answer, and a call
\* that ended with a fetch error built no plugin and left the content of its
\* installation absent.
C13_FetchFailure ==
    /\ \A i \in 1..Len(install_cache.items) :
         install_cache.items[i].value.content # "errbody"
    /\ (obs.op = "call" /\ obs.err = "ContentFetchError")
       => /\ IsNone(obs.plugin)
          /\ ~obs.instantiated
          /\ \A i \in 1..Len(install_cache.items) :
               install_cache.items[i].value.oid = obs.oid
               => install_cache.items[i].value.content = "none"

\* some cached install has a tool named n
Exposes(ic, n) ==
    \E i \in 1..Len(ic.items) :
      \E j \in 1..Len(ic.items[i].value.tools) : ic.items[i].value.tools[j].name = n

RefreshErrors == {"FetchError", "RecursionError", "RuntimeError"}

\* the content every Servlet object in the cache carries
Contents(ic) ==
    { << ic.items[i].value.oid, ic.items[i].value.content >> : i \in 1..Len(ic.items) }

\* C14: a call by name whose resolution did not raise ends with
\* tool-not-found exactly when no cached install exposes the name; such a
\* call fetches no module, builds no plugin, adds nothing to plugin_cache and
\* leaves it as it was when the resolution did not refresh.
C14_ToolNotFound ==
    [][ (obs'.op = "call" /\ obs'.byName /\ obs'.err \notin RefreshErrors)
        => /\ obs'.err = "ToolNotFound" <=> ~Exposes(install_cache', obs'.tool)
           /\ obs'.err = "ToolNotFound"
              => /\ IsNone(obs'.plugin)
                 /\ ~obs'.instantiated
                 /\ ~obs'.fetched
                 /\ \A c \in Contents(install_cache') : c[2] = "none" \/ c \in Contents(install_cache)
                 /\ PluginEntries' \subseteq PluginEntries
                 /\ obs'.refresh = "none" => plugin_cache' = plugin_cache
      ]_vars

\* C14 as stated: a call that ends with tool-not-found leaves plugin_cache
\* unchanged.
C14_CacheUnchanged ==
    [][ (obs'.op = "call" /\ obs'.err = "ToolNotFound")
        => plugin_cache' = plugin_cache ]_vars

\* the refresh of the resolution replaced the install that had the tool and
\* a plugin, and the name is gone
C14_Witness ==
    /\ obs.op = "call"
    /\ obs.err = "ToolNotFound"
    /\ obs.refresh = "ok"
    /\ obs.changed \cap obs.pluginsBefore # {}

\* C15: a call by name that reached a plugin was dispatched to the Tool
\* that tools() maps the name to.
C15_CallAgreesWithTools ==
    (obs.op = "call" /\ obs.byName /\ obs.install # "")
    => [name |-> obs.tool, install |-> obs.install, oid |-> obs.oid]
         \in ToolRefs(ToolsDict(install_cache))

\* the last install of a listing that has a tool named n
LastExposing(listing, n) ==
    LET hits == { i \in 1..Len(listing) :
                    \E j \in 1..Len(listing[i].tools) : listing[i].tools[j].name = n }
    IN listing[CHOOSE i \in hits : \A k \in hits : k <= i].name

\* C16: tools() read with a refresh that fetched a listing maps every tool
\* name of the listing to the tool of the last listed install that has it.
C16_LastListedWins ==
    (obs.op = "tools" /\ obs.err = "" /\ obs.fetch = "full")
    => \A r \in obs.result :
         r.install = LastExposing(The(obs.listing), r.name)

\* C17: needs_refresh() of the Cache with interval d answers true exactly
\* when last_update is absent or now - last_update >= d.
C17_NeedsRefreshIff ==
    (obs.op = "needs_refresh" /\ ~IsNone(TheCache(obs.cache).duration))
    => LET c == TheCache(obs.cache) IN
       obs.answer <=> ( \/ IsNone(c.last_update)
                        \/ now - The(c.last_update) >= The(c.duration) )

\* needs_refresh() answered true exactly at the boundary
C17_Witness ==
    /\ obs.op = "needs_refresh"
    /\ obs.cache = "install_cache"
    /\ ~IsNone(install_cache.last_update)
    /\ now - The(install_cache.last_update) = The(install_cache.duration)
    /\ obs.answer

\* needs_refresh() answered false one tick before the boundary
C17_WitnessBefore ==
    /\ obs.op = "needs_refresh"
    /\ obs.cache = "install_cache"
    /\ ~IsNone(install_cache.last_update)
    /\ now - The(install_cache.last_update) = The(install_cache.duration) - 1
    /\ ~obs.answer

\* C18: the Cache without an interval never needs a refresh, whatever was
\* added, removed, cleared or recorded and whatever the time.
C18_NoIntervalNeverRefreshes ==
    /\ IsNone(plugin_cache.duration)
    /\ ~CacheNeedsRefresh(plugin_cache, now)
    /\ (obs.op = "needs_refresh" /\ obs.cache = "plugin_cache") => ~obs.answer

\* needs_refresh() asked of the Cache without interval, holding entries,
\* long after its last_update; and asked when it has no last_update
C18_Witness ==
    /\ obs.op = "needs_refresh"
    /\ obs.cache = "plugin_cache"
    /\ plugin_cache.items # << >>
    /\ ~IsNone(plugin_cache.last_update)
    /\ now - The(plugin_cache.last_update) >= RefreshTime

\* C19: clear_cache leaves both caches without entries and without
\* last_update, so that the install cache needs a refresh at once; the
\* tools() access that meets the cleared client sends a request.
C19_ClearCache ==
    [][ /\ ClearCache
           => /\ install_cache'.items = << >> /\ IsNone(install_cache'.last_update)
              /\ plugin_cache'.items = << >> /\ IsNone(plugin_cache'.last_update)
              /\ CacheNeedsRefresh(install_cache', now')
        /\ (obs.op = "clear_cache" /\ Tools) => obs'.fetch # "none"
      ]_vars

\* clear_cache, within the interval, on a client that had fetched a listing
\* with tools
C19_Witness ==
    /\ obs.op = "clear_cache"
    /\ Cleared
    /\ profile \in unmodified
    /\ \E i \in 1..Len(remote[profile]) : remote[profile][i].tools # << >>
    /\ now < RefreshTime
    /\ remoteChanges = 0

\* C20: a call whose invocation raised ends with that error, with its
\* plugin still in plugin_cache, and the next call of the same tool and
\* options, made without a refresh, runs on that same plugin and
\* instantiates nothing.
C20_InvocationError ==
    [][ /\ (obs'.op = "call" /\ obs'.err = "InvocationError")
           => /\ ~IsNone(obs'.plugin)
              /\ The(obs'.plugin) \in PluginEntries'
        /\ ( /\ obs.op = "call" /\ obs.err = "InvocationError"
             /\ obs'.op = "call" /\ obs'.refresh = "none"
             /\ obs'.tool = obs.tool /\ obs'.opts = obs.opts
             /\ ~IsNone(obs'.plugin) )
           => /\ The(obs'.plugin).pid = The(obs.plugin).pid
              /\ ~obs'.instantiated
      ]_vars

\* C21: an access whose installations request fails ends with that error
\* after one request, with install_cache, its last_update and plugin_cache
\* as they were, so that the cache still needs a refresh; the next access
\* sends the request again.
C21_FetchFailureSurfaced ==
    [][ /\ obs'.fetch = "error"
           => /\ obs'.err = "FetchError"
              /\ obs'.requests = 1
              /\ IsNone(obs'.plugin)
              /\ install_cache' = install_cache
              /\ plugin_cache' = plugin_cache
              /\ CacheNeedsRefresh(install_cache', now')
        /\ (obs.fetch = "error" /\ obs'.op \in {"tools", "call"} /\ obs'.byName = (obs'.op = "call"))
           => /\ obs'.fetch # "none"
              /\ obs'.requests = 1
      ]_vars

\* the request of a refresh of a populated cache failed, the interval over
C21_Witness ==
    /\ obs.op = "tools"
    /\ obs.fetch = "error"
    /\ obs.err = "FetchError"
    /\ ~IsNone(install_cache.last_update)
    /\ install_cache.items # << >>
    /\ plugin_cache.items # << >>

\* C22: every plugin whose entry a step evicts from plugin_cache or
\* overwrites in it is released in that step, once, and nothing else is
\* released.
C22_ReleasedOnce ==
    [][ LET rel == CacheReleased(plugin_cache, plugin_cache') IN
        /\ SeqToSet(rel) = CacheDropped(plugin_cache, plugin_cache')
        /\ \A i, j \in 1..Len(rel) : rel[i] = rel[j] => i = j
      ]_vars

\* C24: an access that fetched a listing keeps, for every listed
\* installation whose listed fields equal those of the cached one, the
\* cached Servlet object with the module bytes attached to it, counts it
\* neither as added nor replaced nor removed, and evicts no plugin cached
\* for it (the call itself may store its new plugin over it); and no cached
\* Servlet, whatever bytes it carries, compares unequal to a newly fetched
\* one with its listed fields.
C24_NoChurn ==
    [][ /\ (obs'.op \in {"tools", "call"} /\ obs'.fetch = "full")
           => \A i \in 1..Len(The(obs'.listing)) :
                LET x == The(obs'.listing)[i]
                    c == CacheGet(install_cache, NameKey(x.name))
                    c2 == CacheGet(install_cache', NameKey(x.name))
                IN (~IsNone(c) /\ ListedFields(The(c)) = x)
                   => /\ ~IsNone(c2)
                      /\ The(c2).oid = The(c).oid
                      /\ The(c).content # "none" => The(c2).content = The(c).content
                      /\ x.name \notin obs'.added \cup obs'.changed \cup obs'.removed
                      /\ \A p \in PluginEntries :
                           p.name = x.name
                           => \/ p \in PluginEntries'
                              \/ obs'.instantiated /\ obs'.install = x.name
        /\ \A i \in 1..Len(install_cache'.items) :
             LET sv == install_cache'.items[i].value IN
             ServletCmp(NewServlet(ListedFields(sv), 0), sv) # "ne"
      ]_vars

\* tools() fetched a listing in which an installation is as cached, the
\* cached object carrying module bytes and having a plugin
C24_Witness ==
    /\ obs.op = "tools"
    /\ obs.fetch = "full"
    /\ \E i \in 1..Len(install_cache.items) :
         LET sv == install_cache.items[i].value IN
         /\ sv.content = "wasm"
         /\ sv.name \in obs.pluginsBefore
         /\ sv.name \in obs.beforeNames
         /\ \E j \in 1..Len(The(obs.listing)) : The(obs.listing)[j] = ListedFields(sv)
         /\ \E p \in PluginEntries : p.name = sv.name /\ p.oid = sv.oid

\* tools() completed a refresh over a listing in which an installation is
\* as cached
C24_WitnessCompleted ==
    /\ obs.op = "tools"
    /\ obs.refresh = "ok"
    /\ obs.fetch = "full"
    /\ \E i \in 1..Len(install_cache.items) :
         LET sv == install_cache.items[i].value IN
         /\ sv.name \in obs.beforeNames \ obs.changed
         /\ \E j \in 1..Len(The(obs.listing)) : The(obs.listing)[j] = ListedFields(sv)

\* C25: a cached Servlet compared with a separately fetched Servlet of the
\* same listed fields gives equal (the comparison returns), and a refresh
\* that fetched a listing of exactly the cached installations, none of them
\* differing, completes.
C25_ComparisonTerminates ==
    /\ \A i \in 1..Len(install_cache.items) :
         LET sv == install_cache.items[i].value IN
         ServletCmp(NewServlet(ListedFields(sv), 0), sv) = "eq"
    /\ ( /\ obs.fetch = "full"
         /\ ListingNames(The(obs.listing)) = obs.beforeNames
         /\ obs.differing = {} )
       => obs.refresh = "ok"

\* C26: an access whose refresh raised, at the request or while an
\* installation was processed, leaves install_cache with its entries and its
\* last_update, and plugin_cache with its entries, as before the access.
C26_RefreshAllOrNothing ==
    [][ (obs'.op \in {"tools", "call"} /\ obs'.refresh \in RefreshErrors)
        => /\ install_cache' = install_cache
           /\ plugin_cache' = plugin_cache
      ]_vars

\* C27: a direct list_installs, for whatever profile, leaves what tools()
\* can return as it was: the errors and tool mappings tools() can give
\* right after it are those it could give right before it.
C27_ListInstallsTransparent ==
    [][ obs'.op = "list_installs" => ToolsOutcomes' = ToolsOutcomes ]_vars

\* C28: list_installs(P) yields installations fetched for profile P only.
C28_YieldsOnlyRequestedProfile ==
    obs.op = "list_installs"
    => \A i \in 1..Len(obs.yielded) : obs.yielded[i].profile = obs.target

\* the tool names of a listing
ListedToolNames(listing) ==
    { n \in ToolNames : \E i \in 1..Len(listing) : HasTool(listing[i].tools, n) }

\* C29: the first tools() of a second client, whatever the first client did
\* before, sends an unconditional request and, when it returns, returns the
\* tools of the full remote listing, every listed installation fetched.
C29_ClientsIndependent ==
    obs.op = "new_client_tools"
    => /\ ~obs.conditional
       /\ obs.fetch \in {"full", "error"}
       /\ obs.err = ""
          => /\ obs.added = ListingNames(remote["default"])
             /\ { r.name : r \in obs.result } = ListedToolNames(remote["default"])

\* C23: an install, uninstall, create_task, create_profile or
\* delete_profile that names a profile of another user ends with
\* InvalidUserError, sends no request and leaves both caches as they were.
C23_OtherUserRejected ==
    [][ (obs'.op \in MutationOps /\ obs'.owner # "~")
        => /\ obs'.err = "InvalidUserError"
           /\ obs'.requests = 0
           /\ install_cache' = install_cache
           /\ plugin_cache' = plugin_cache
      ]_vars

\* C30: the tools() that follows an install or uninstall which the registry
\* accepted for the active profile, with the profile argument left out or
\* given as a Profile object, sends a request and, when it returns, has the
\* installations the registry now lists.
C30_MutationRefreshes ==
    [][ ( /\ obs.op \in {"install", "uninstall"}
          /\ obs.err = ""
          /\ obs.target = profile
          /\ obs'.op = "tools" )
        => /\ obs'.fetch # "none"
           /\ obs'.err = "" => SeqToSet(CachedListing') = SeqToSet(remote[profile])
      ]_vars

\* C31: set_profile(p) with p the current profile, given as a str or as a
\* Profile object whose slug it is, changes nothing: the entries of
\* install_cache and of plugin_cache, last_update, the record of the last
\* installations requests and config.profile are as before, and no request
\* is sent.
C31_SameProfileNoChange ==
    [][ (obs'.op = "set_profile" /\ obs'.target = profile)
        => /\ install_cache' = install_cache
           /\ plugin_cache' = plugin_cache
           /\ last_installations_request' = last_installations_request
           /\ profile' = profile
           /\ remote' = remote
           /\ obs'.requests = 0
      ]_vars

\* set_profile was given the current profile while installs and a plugin
\* were cached and the last installations request was on record
C31_Witness ==
    /\ obs.op = "set_profile"
    /\ obs.target = obs.profile
    /\ install_cache.items # << >>
    /\ ~IsNone(install_cache.last_update)
    /\ plugin_cache.items # << >>
    /\ ~IsNone(last_installations_request[profile])

\* the same on the public profile of another user, which a Profile object names
C31_WitnessObject ==
    /\ C31_Witness
    /\ obs.target = ProfileSlugOf(ProfileObj("other", "pub"))

\* C32: TaskRun.wait with a timeout T and an interval i ends.  A poll that
\* finds the run running when the time since the start is over T, or would
\* be after a sleep of i, ends the wait with None and leaves status and
\* results_list as they were; status and results_list change only on a poll
\* that reports another status than running, and that poll is the last.
C32_WaitTerminates ==
    /\ [][ /\ ( /\ wait'.polls = wait.polls + 1
                /\ wait'.data = "running"
                /\ ~IsNone(wait.timeout)
                /\ \/ wait'.elapsed > The(wait.timeout)
                   \/ wait'.elapsed + wait.interval > The(wait.timeout) )
             => /\ wait'.at = "done"
                /\ wait'.err = ""
                /\ IsNone(wait'.ret)
                /\ task_run' = task_run
           /\ task_run' # task_run
              => /\ wait'.polls = wait.polls + 1
                 /\ wait'.data \notin {"", "running"}
                 /\ wait'.at = "done"
           /\ wait.at = "done" => wait' = wait
         ]_vars
    /\ (wait.at # "idle" /\ ~IsNone(wait.timeout)) ~> (wait.at = "done")

\* a wait with a timeout polled, slept, polled again and gave up while the
\* run was still running
C32_Witness ==
    /\ wait.at = "done"
    /\ ~IsNone(wait.timeout)
    /\ wait.polls >= 2
    /\ wait.data = "running"
    /\ IsNone(wait.ret)
    /\ wait.err = ""

\* a wait with a timeout ended on a poll that reported the run ready
C32_WitnessReady ==
    /\ wait.at = "done"
    /\ ~IsNone(wait.timeout)
    /\ wait.polls >= 2
    /\ wait.data = "ready"
    /\ task_run.status = "ready"
    /\ ~IsNone(wait.ret)

====
